---- MODULE Spec2Model ----
(***************************************************************************)
(* Plugin registry of singularity (internal/pkg/plugin/binary.go).         *)
(*                                                                         *)
(* Strings are sequences of one-character strings, so that a name such as  *)
(* "v/p" is <<"v", "/", "p">> and path operations (FromSlash, Join, Clean, *)
(* Glob) are computed character by character.  A path of the file system   *)
(* is the sequence of its components from "/", each component a sequence   *)
(* of characters.  The registry root is /R, the working directory of the   *)
(* process is /W.                                                          *)
(*                                                                         *)
(* binary.go is the only file of the package that is modelled from source. *)
(* The Meta type it calls (install, uninstall, enable, disable, imageName, *)
(* loadMetaByName, loadMetaByFilename) and the image adapter (isPluginFile,*)
(* getManifest) are modelled from the specification text.                  *)
(***************************************************************************)
EXTENDS Integers, Sequences, FiniteSets, TLC

VARIABLES fs, pre, last, calls

vars == <<fs, pre, last, calls>>

----------------------------------------------------------------------------
(* Strings and paths *)

\* os.PathSeparator on the platforms singularity builds for.
Separator == "/"

EmptyStr == <<>>

\* The names and image paths the operations are called with.
NameV == <<"v">>
NameVP == <<"v", "/", "p">>
NameG == <<"g">>
PathA == <<"a">>
PathN == <<"n">>
PathU == <<"u">>
PathD == <<"d">>
PathAX == <<"a", "/", "x">>

\* A name with a parent-directory segment.
NameUpX == <<".", ".", "/", "x">>

\* The plugin names: "v" is a path prefix of "v/p".
Names == {NameV, NameVP}

\* The paths given to Install as the image to install (no file is at v/p).
Sources == {PathA, PathN, PathU, NameVP}

\* The arguments given to Inspect (a/x is a path below the regular file a).
Strs == Names \cup {PathA, NameG, PathN, PathU, PathD, PathAX}

rootDir == << <<"R">> >>
cwd == << <<"W">> >>

\* strings.Split(s, Separator), accumulating the current component.
RECURSIVE SplitAcc(_, _, _)
SplitAcc(s, cur, acc) ==
    IF s = <<>> THEN Append(acc, cur)
    ELSE IF Head(s) = Separator
         THEN SplitAcc(Tail(s), <<>>, Append(acc, cur))
         ELSE SplitAcc(Tail(s), Append(cur, Head(s)), acc)

Split(s) == SplitAcc(s, <<>>, <<>>)

\* filepath.Clean applied to base/comps where base is a clean absolute path:
\* empty and "." components are dropped, ".." removes the last component
\* (and is dropped at the root).
RECURSIVE CleanAcc(_, _)
CleanAcc(comps, acc) ==
    IF comps = <<>> THEN acc
    ELSE LET c == Head(comps) IN
         IF c = <<>> \/ c = <<".">> THEN CleanAcc(Tail(comps), acc)
         ELSE IF c = <<".", ".">>
              THEN CleanAcc(Tail(comps),
                            IF acc = <<>> THEN acc
                            ELSE SubSeq(acc, 1, Len(acc) - 1))
              ELSE CleanAcc(Tail(comps), Append(acc, c))

\* filepath.Join(base, rel)
Join(base, rel) == CleanAcc(Split(rel), base)

\* The absolute path a path argument of os.Stat / sif.LoadContainer names.
Abs(p) ==
    IF p # <<>> /\ Head(p) = Separator THEN CleanAcc(Split(p), <<>>)
    ELSE CleanAcc(Split(p), cwd)

Parent(path) == SubSeq(path, 1, Len(path) - 1)

IsPrefix(p, q) == Len(p) <= Len(q) /\ SubSeq(q, 1, Len(p)) = p

UnderRoot(path) == IsPrefix(rootDir, path) /\ path # rootDir

\* The characters of name before its first '/'.
RECURSIVE FirstSegment(_)
FirstSegment(name) ==
    IF name = <<>> \/ Head(name) = "/" THEN <<>>
    ELSE <<Head(name)>> \o FirstSegment(Tail(name))

\* pathFromName keeping only the first segment of the name, so that the
\* plugins of one namespace share a directory.
pathFromName_FirstSegment(name) == FirstSegment(name)

\* pathFromName: filepath.FromSlash replaces every '/' by the separator.
pathFromName(name) ==
    [i \in DOMAIN name |-> IF name[i] = "/" THEN Separator ELSE name[i]]

\* pluginIDFromName: lowercase hex of sha256 of the name bytes.  The digest
\* is tabulated for the names of the model (values of sha256sum).
pluginIDFromName(name) ==
    CASE name = NameV -> "4c94485e0c21ae6c41ce1dfe7b6bfaceea5ab68e40a2476f50208e526f506080"
      [] name = NameVP -> "0513fff8dbeaece9b50a865b9a0d5907cfef0d3747d72715328ec95541c2fe48"
      [] name = NameG -> "cd0aa9856147b6c5b4ff2b7dfee5da20aa38253099ef1b4a64aced233c9afe29"
      [] name = PathA -> "ca978112ca1bbdcafac231b39a23dc4da786eff8147c4e72b9807785afee48bb"
      [] name = PathN -> "1b16b1df538ba12dc3f97edbb85caa7050d46c148134290feba80f8236c83db9"
      [] name = PathU -> "0bfe935e70c321c7ca3afc75ce0d0ca2f98b5422e008bb31c00c6d7f1f1c0ad6"
      [] name = PathD -> "18ac3e7343f016890c510e93f935261169d9e3f565436429830faf0934f4f8e4"
      [] name = NameUpX -> "d6b96a97d147daaae49eb87a5ca7bfbc280e79551016df8aa5edc5920d21c274"
      [] name = EmptyStr -> "e3b0c44298fc1c149afbf4c8996fb92427ae41e4649b934ca495991b7852b855"

----------------------------------------------------------------------------
(* Images.  An image is identified by a tag; the container reader and the  *)
(* image adapter are functions of the tag.                                 *)

\* "A": plugin image declaring the name "v/p".  "V": plugin image declaring
\* the name "g".  "N": a container that is no plugin.  "U": a file that is
\* no container at all.
Images == {"A", "V", "N", "U"}

\* sif.LoadContainer succeeds on the bytes of the image.
IsContainer(img) == img \in {"A", "V", "N"}

\* isPluginFile: the image carries the plugin descriptor.
isPluginFile(img) == img \in {"A", "V"}

\* getManifest: the manifest embedded in the image.
getManifest(img) ==
    CASE img = "A" -> [Name |-> NameVP]
      [] img = "V" -> [Name |-> NameG]
      [] OTHER -> [Name |-> EmptyStr]

\* The zero value of pluginapi.Manifest.
ZeroManifest == [Name |-> EmptyStr]

----------------------------------------------------------------------------
(* File system: a function from the paths that exist to their entries.     *)

DirEntry == [type |-> "dir", kind |-> "dir", img |-> "-", Name |-> EmptyStr, Enabled |-> FALSE]

\* A path os.Stat fails on with an error other than ENOENT: its parent
\* directory cannot be searched (EACCES), or it is a symbolic link that
\* cannot be followed (ELOOP).
DeniedEntry == [type |-> "denied", kind |-> "-", img |-> "-", Name |-> EmptyStr, Enabled |-> FALSE]

SifEntry(img) == [type |-> "file", kind |-> "sif", img |-> img, Name |-> EmptyStr, Enabled |-> FALSE]

ObjEntry(img) == [type |-> "file", kind |-> "obj", img |-> img, Name |-> EmptyStr, Enabled |-> FALSE]

ConfEntry == [type |-> "file", kind |-> "conf", img |-> "-", Name |-> EmptyStr, Enabled |-> FALSE]

\* The JSON serialisation of a Meta: its exported fields Name and Enabled.
MetaEntry(name, enabled) ==
    [type |-> "file", kind |-> "json", img |-> "-", Name |-> name, Enabled |-> enabled]

\* A regular file that does not hold the JSON of a Meta.
JunkEntry == [type |-> "file", kind |-> "junk", img |-> "-", Name |-> EmptyStr, Enabled |-> FALSE]

Exists(f, path) == path \in DOMAIN f

IsDir(f, path) == Exists(f, path) /\ f[path].type = "dir"

IsRegular(f, path) == Exists(f, path) /\ f[path].type = "file"

\* The file system with path set to entry e.
Put(f, path, e) == [q \in DOMAIN f \cup {path} |-> IF q = path THEN e ELSE f[q]]

\* The file system with path removed.
Del(f, path) == [q \in DOMAIN f \ {path} |-> f[q]]

\* A regular file can be created or truncated at path: the parent is a
\* directory and path is not a directory.
CanWrite(f, path) ==
    /\ path # <<>>
    /\ IsDir(f, Parent(path))
    /\ (Exists(f, path) => f[path].type = "file")

\* os.MkdirAll(path): every missing prefix becomes a directory; fails when
\* a prefix exists and is no directory.
Prefixes(path) == {SubSeq(path, 1, k) : k \in 1..Len(path)}

CanMkdirAll(f, path) == \A q \in Prefixes(path) : Exists(f, q) => IsDir(f, q)

MkdirAll(f, path) ==
    [q \in DOMAIN f \cup Prefixes(path) |-> IF q \in DOMAIN f THEN f[q] ELSE DirEntry]

\* os.Stat(name): "ok", "notexist" (os.IsNotExist: ENOENT) or "error"
\* (EACCES; ENOTDIR when a prefix of the path is no directory).
Stat(f, name) ==
    IF name = EmptyStr THEN "notexist"
    ELSE LET p == Abs(name) IN
         IF \E q \in Prefixes(p) : q # p /\ Exists(f, q) /\ ~IsDir(f, q) THEN "error"
         ELSE IF ~Exists(f, p) THEN "notexist"
         ELSE IF f[p].type = "denied" THEN "error"
         ELSE "ok"

\* sif.LoadContainer(path, true): the image tag, or "-" on error.
LoadContainer(f, path) ==
    IF path # <<>> /\ IsRegular(f, path) /\ f[path].kind = "sif" /\ IsContainer(f[path].img)
    THEN f[path].img
    ELSE "-"

----------------------------------------------------------------------------
(* The Meta record and its files.  A Meta in memory is                     *)
(* [Name, Enabled, img]: img is the loaded image it was built from ("-"    *)
(* when the record was read back from its metadata file).                  *)

\* A Meta in memory.
Meta(name, enabled, img) == [Name |-> name, Enabled |-> enabled, img |-> img]

FileImage == <<"plugin.sif">>
FileBinary == <<"object.so">>
FileConfig == <<"config.yaml">>
MetaSuffix == ".meta"

\* The directory of the plugin: the fragment of its name under the root.
metaPath(name) == Join(rootDir, pathFromName(name))

\* Meta.imageName: the absolute path of the installed image copy.
imageName(name) == Append(metaPath(name), FileImage)

binaryName(name) == Append(metaPath(name), FileBinary)

configName(name) == Append(metaPath(name), FileConfig)

\* The metadata file: <rootDir>/<plugin ID>.meta
metaFilename(name) == Append(rootDir, <<pluginIDFromName(name), MetaSuffix>>)

\* loadMetaByFilename: open the file and decode the JSON record.
loadMetaByFilename(f, path) ==
    IF IsRegular(f, path) /\ f[path].kind = "json"
    THEN [ok |-> TRUE, meta |-> Meta(f[path].Name, f[path].Enabled, "-")]
    ELSE [ok |-> FALSE, meta |-> Meta(EmptyStr, FALSE, "-")]

loadMetaByName(f, name) == loadMetaByFilename(f, metaFilename(name))

InstallSteps == <<"mkdir", "copy", "extract", "config", "meta">>

\* The file a step of Meta.install creates, and what it holds.
installTarget(m, step) ==
    CASE step = "copy" -> imageName(m.Name)
      [] step = "extract" -> binaryName(m.Name)
      [] step = "config" -> configName(m.Name)
      [] step = "meta" -> metaFilename(m.Name)

installEntry(m, step) ==
    CASE step = "copy" -> SifEntry(m.img)
      [] step = "extract" -> ObjEntry(m.img)
      [] step = "config" -> ConfEntry
      [] step = "meta" -> MetaEntry(m.Name, m.Enabled)

\* One step of Meta.install on file system f; fail names the step at which
\* the operating system reports an I/O error ("none": no injected error).
installStep(f, m, step, fail) ==
    IF step = fail THEN [ok |-> FALSE, fs |-> f]
    ELSE IF step = "mkdir"
         THEN IF CanMkdirAll(f, metaPath(m.Name))
              THEN [ok |-> TRUE, fs |-> MkdirAll(f, metaPath(m.Name))]
              ELSE [ok |-> FALSE, fs |-> f]
         ELSE IF CanWrite(f, installTarget(m, step))
              THEN [ok |-> TRUE, fs |-> Put(f, installTarget(m, step), installEntry(m, step))]
              ELSE [ok |-> FALSE, fs |-> f]

\* Meta.install: the steps in order, stopping at the first that fails.
\* The result names the failed step ("none" on success).
RECURSIVE installFrom(_, _, _, _)
installFrom(f, m, k, fail) ==
    IF k > Len(InstallSteps) THEN [fs |-> f, step |-> "none"]
    ELSE LET r == installStep(f, m, InstallSteps[k], fail) IN
         IF r.ok THEN installFrom(r.fs, m, k + 1, fail)
         ELSE [fs |-> r.fs, step |-> InstallSteps[k]]

metaInstall(f, m, fail) == installFrom(f, m, 1, fail)

\* Meta.uninstall removing the metadata file last.
UninstallSteps_MetaLast == <<"image", "binary", "meta">>

UninstallSteps == <<"meta", "image", "binary">>

uninstallTarget(m, step) ==
    CASE step = "meta" -> metaFilename(m.Name)
      [] step = "image" -> imageName(m.Name)
      [] step = "binary" -> binaryName(m.Name)

\* Meta.uninstall: remove the metadata file, the image copy and the binary
\* object; a file that is already missing is not an error.
RECURSIVE uninstallFrom(_, _, _, _)
uninstallFrom(f, m, k, fail) ==
    IF k > Len(UninstallSteps) THEN [fs |-> f, step |-> "none"]
    ELSE LET t == uninstallTarget(m, UninstallSteps[k]) IN
         IF UninstallSteps[k] = fail THEN [fs |-> f, step |-> fail]
         ELSE IF Exists(f, t) THEN uninstallFrom(Del(f, t), m, k + 1, fail)
         ELSE uninstallFrom(f, m, k + 1, fail)

metaUninstall(f, m, fail) == uninstallFrom(f, m, 1, fail)

\* Writing the metadata file of m (Meta.enable, Meta.disable after they
\* set the flag).
writeMeta(f, m, fail) ==
    IF fail = "write" \/ ~CanWrite(f, metaFilename(m.Name))
    THEN [fs |-> f, step |-> "write"]
    ELSE [fs |-> Put(f, metaFilename(m.Name), MetaEntry(m.Name, m.Enabled)), step |-> "none"]

\* Meta.enable: m.Enabled = true, then the metadata file is rewritten.
metaEnable(f, m, fail) == writeMeta(f, [m EXCEPT !.Enabled = TRUE], fail)

\* Meta.disable: m.Enabled = false, then the metadata file is rewritten.
metaDisable(f, m, fail) == writeMeta(f, [m EXCEPT !.Enabled = FALSE], fail)

----------------------------------------------------------------------------
(* The registry operations of binary.go, as functions of the file system   *)
(* and the arguments.  Errors are named by their kind:                     *)
(*   "LoadError"    "could not load plugin: ..." / the error of            *)
(*                  sif.LoadContainer                                      *)
(*   "NotAPlugin"   "not a valid plugin"                                   *)
(*   "InstallError" "could not install plugin: ..."                        *)
(*   "NotFound"     the error of loadMetaByName                            *)
(*   "IOError"      the error of os.Stat, Meta.uninstall, Meta.enable,     *)
(*                  Meta.disable                                           *)

\* Install building the record without Enabled: true.
Install_Disabled(f, sifPath, name, fail) ==
    LET img == LoadContainer(f, Abs(sifPath)) IN
    IF img = "-"
    THEN [fs |-> f, err |-> "LoadError", eff |-> name, step |-> "load",
          loads |-> <<Abs(sifPath)>>]
    ELSE IF ~isPluginFile(img)
    THEN [fs |-> f, err |-> "NotAPlugin", eff |-> name, step |-> "check",
          loads |-> <<Abs(sifPath)>>]
    ELSE LET manifest == getManifest(img)
             n == IF name = EmptyStr THEN manifest.Name ELSE name
             r == metaInstall(f, Meta(n, FALSE, img), fail)
         IN [fs |-> r.fs,
             err |-> IF r.step = "none" THEN "nil" ELSE "InstallError",
             eff |-> n, step |-> r.step, loads |-> <<Abs(sifPath)>>]

\* Install without the isPluginFile test.
Install_NoPluginCheck(f, sifPath, name, fail) ==
    LET img == LoadContainer(f, Abs(sifPath)) IN
    IF img = "-"
    THEN [fs |-> f, err |-> "LoadError", eff |-> name, step |-> "load",
          loads |-> <<Abs(sifPath)>>]
    ELSE LET manifest == getManifest(img)
             n == IF name = EmptyStr THEN manifest.Name ELSE name
             r == metaInstall(f, Meta(n, TRUE, img), fail)
         IN [fs |-> r.fs,
             err |-> IF r.step = "none" THEN "nil" ELSE "InstallError",
             eff |-> n, step |-> r.step, loads |-> <<Abs(sifPath)>>]

\* Install dropping the error of m.install.
Install_IgnoresError(f, sifPath, name, fail) ==
    LET img == LoadContainer(f, Abs(sifPath)) IN
    IF img = "-"
    THEN [fs |-> f, err |-> "LoadError", eff |-> name, step |-> "load",
          loads |-> <<Abs(sifPath)>>]
    ELSE IF ~isPluginFile(img)
    THEN [fs |-> f, err |-> "NotAPlugin", eff |-> name, step |-> "check",
          loads |-> <<Abs(sifPath)>>]
    ELSE LET manifest == getManifest(img)
             n == IF name = EmptyStr THEN manifest.Name ELSE name
             r == metaInstall(f, Meta(n, TRUE, img), fail)
         IN [fs |-> r.fs, err |-> "nil",
             eff |-> n, step |-> r.step, loads |-> <<Abs(sifPath)>>]

\* Install taking the manifest's name whenever the manifest declares one.
Install_ManifestWins(f, sifPath, name, fail) ==
    LET img == LoadContainer(f, Abs(sifPath)) IN
    IF img = "-"
    THEN [fs |-> f, err |-> "LoadError", eff |-> name, step |-> "load",
          loads |-> <<Abs(sifPath)>>]
    ELSE IF ~isPluginFile(img)
    THEN [fs |-> f, err |-> "NotAPlugin", eff |-> name, step |-> "check",
          loads |-> <<Abs(sifPath)>>]
    ELSE LET manifest == getManifest(img)
             n == IF manifest.Name # EmptyStr THEN manifest.Name ELSE name
             r == metaInstall(f, Meta(n, TRUE, img), fail)
         IN [fs |-> r.fs,
             err |-> IF r.step = "none" THEN "nil" ELSE "InstallError",
             eff |-> n, step |-> r.step, loads |-> <<Abs(sifPath)>>]

Install_(f, sifPath, name, fail) ==
    LET img == LoadContainer(f, Abs(sifPath)) IN
    IF img = "-"
    THEN [fs |-> f, err |-> "LoadError", eff |-> name, step |-> "load",
          loads |-> <<Abs(sifPath)>>]
    ELSE IF ~isPluginFile(img)
    THEN [fs |-> f, err |-> "NotAPlugin", eff |-> name, step |-> "check",
          loads |-> <<Abs(sifPath)>>]
    ELSE LET manifest == getManifest(img)
             n == IF name = EmptyStr THEN manifest.Name ELSE name
             m == Meta(n, TRUE, img)
             r == metaInstall(f, m, fail)
         IN [fs |-> r.fs,
             err |-> IF r.step = "none" THEN "nil" ELSE "InstallError",
             eff |-> n, step |-> r.step, loads |-> <<Abs(sifPath)>>]

\* Uninstall going on with the zero Meta after a failed lookup.
Uninstall_IgnoresLookupError(f, name, fail) ==
    LET l == loadMetaByName(f, name)
        r == metaUninstall(f, l.meta, fail)
    IN [fs |-> r.fs, err |-> IF r.step = "none" THEN "nil" ELSE "IOError",
        step |-> r.step]

\* Uninstall refusing a record whose image copy or binary object is missing.
Uninstall_VerifiesFiles(f, name, fail) ==
    LET l == loadMetaByName(f, name) IN
    IF ~l.ok THEN [fs |-> f, err |-> "NotFound", step |-> "lookup"]
    ELSE IF ~Exists(f, imageName(l.meta.Name)) \/ ~Exists(f, binaryName(l.meta.Name))
    THEN [fs |-> f, err |-> "IOError", step |-> "image"]
    ELSE LET r == metaUninstall(f, l.meta, fail) IN
         [fs |-> r.fs, err |-> IF r.step = "none" THEN "nil" ELSE "IOError",
          step |-> r.step]

Uninstall_(f, name, fail) ==
    LET l == loadMetaByName(f, name) IN
    IF ~l.ok THEN [fs |-> f, err |-> "NotFound", step |-> "lookup"]
    ELSE LET r == metaUninstall(f, l.meta, fail) IN
         [fs |-> r.fs, err |-> IF r.step = "none" THEN "nil" ELSE "IOError",
          step |-> r.step]

\* Enable without the test for a plugin that is already enabled.
Enable_NoShortCircuit(f, name, fail) ==
    LET l == loadMetaByName(f, name) IN
    IF ~l.ok THEN [fs |-> f, err |-> "NotFound", wrote |-> FALSE]
    ELSE LET r == metaEnable(f, l.meta, fail) IN
         [fs |-> r.fs, err |-> IF r.step = "none" THEN "nil" ELSE "IOError",
          wrote |-> TRUE]

\* Enable going on with the zero Meta after a failed lookup.
Enable_IgnoresLookupError(f, name, fail) ==
    LET l == loadMetaByName(f, name) IN
    IF l.meta.Enabled THEN [fs |-> f, err |-> "nil", wrote |-> FALSE]
    ELSE LET r == metaEnable(f, l.meta, fail) IN
         [fs |-> r.fs, err |-> IF r.step = "none" THEN "nil" ELSE "IOError",
          wrote |-> TRUE]

\* wrote: the metadata file was opened for writing.
Enable_(f, name, fail) ==
    LET l == loadMetaByName(f, name) IN
    IF ~l.ok THEN [fs |-> f, err |-> "NotFound", wrote |-> FALSE]
    ELSE IF l.meta.Enabled THEN [fs |-> f, err |-> "nil", wrote |-> FALSE]
    ELSE LET r == metaEnable(f, l.meta, fail) IN
         [fs |-> r.fs, err |-> IF r.step = "none" THEN "nil" ELSE "IOError",
          wrote |-> TRUE]

\* Disable calling meta.enable() where it should call meta.disable().
Disable_CallsEnable(f, name, fail) ==
    LET l == loadMetaByName(f, name) IN
    IF ~l.ok THEN [fs |-> f, err |-> "NotFound", wrote |-> FALSE]
    ELSE IF ~l.meta.Enabled THEN [fs |-> f, err |-> "nil", wrote |-> FALSE]
    ELSE LET r == metaEnable(f, l.meta, fail) IN
         [fs |-> r.fs, err |-> IF r.step = "none" THEN "nil" ELSE "IOError",
          wrote |-> TRUE]

Disable_(f, name, fail) ==
    LET l == loadMetaByName(f, name) IN
    IF ~l.ok THEN [fs |-> f, err |-> "NotFound", wrote |-> FALSE]
    ELSE IF ~l.meta.Enabled THEN [fs |-> f, err |-> "nil", wrote |-> FALSE]
    ELSE LET r == metaDisable(f, l.meta, fail) IN
         [fs |-> r.fs, err |-> IF r.step = "none" THEN "nil" ELSE "IOError",
          wrote |-> TRUE]

\* The pattern "*.meta" on one path component: '*' matches any run of
\* characters other than the separator.
MatchMeta(c) == c # <<>> /\ c[Len(c)] = MetaSuffix

\* The digests in lexical order: the order in which filepath.Glob returns
\* the entries it read from the directory.
SortedIDs ==
    << "0513fff8dbeaece9b50a865b9a0d5907cfef0d3747d72715328ec95541c2fe48",
       "0bfe935e70c321c7ca3afc75ce0d0ca2f98b5422e008bb31c00c6d7f1f1c0ad6",
       "18ac3e7343f016890c510e93f935261169d9e3f565436429830faf0934f4f8e4",
       "1b16b1df538ba12dc3f97edbb85caa7050d46c148134290feba80f8236c83db9",
       "4c94485e0c21ae6c41ce1dfe7b6bfaceea5ab68e40a2476f50208e526f506080",
       "ca978112ca1bbdcafac231b39a23dc4da786eff8147c4e72b9807785afee48bb",
       "cd0aa9856147b6c5b4ff2b7dfee5da20aa38253099ef1b4a64aced233c9afe29",
       "d6b96a97d147daaae49eb87a5ca7bfbc280e79551016df8aa5edc5920d21c274",
       "e3b0c44298fc1c149afbf4c8996fb92427ae41e4649b934ca495991b7852b855" >>

Rank(path) ==
    CHOOSE i \in 1..Len(SortedIDs) : SortedIDs[i] = path[Len(path)][1]

RECURSIVE SortPaths(_)
SortPaths(S) ==
    IF S = {} THEN <<>>
    ELSE LET p == CHOOSE x \in S : \A y \in S : Rank(x) <= Rank(y)
         IN <<p>> \o SortPaths(S \ {p})

\* filepath.Glob(filepath.Join(rootDir, "*.meta"))
Glob(f) ==
    SortPaths({p \in DOMAIN f : /\ Len(p) = Len(rootDir) + 1
                                 /\ Parent(p) = rootDir
                                 /\ MatchMeta(p[Len(p)])})

\* The loop of List leaving the scan at the first entry it cannot use.
RECURSIVE ListLoop_Aborts(_, _, _)
ListLoop_Aborts(f, entries, metas) ==
    IF entries = <<>> THEN metas
    ELSE LET entry == Head(entries)
             l == loadMetaByFilename(f, entry)
         IN IF f[entry].type = "denied" THEN metas
            ELSE IF ~IsRegular(f, entry) THEN metas
            ELSE IF ~l.ok THEN metas
            ELSE ListLoop_Aborts(f, Tail(entries),
                                 Append(metas, [Name |-> l.meta.Name, Enabled |-> l.meta.Enabled]))

\* The loop of List appending one pointer that every iteration overwrites:
\* all the records returned are the record loaded last.
RECURSIVE ListLoop_Aliased(_, _, _)
ListLoop_Aliased(f, entries, metas) ==
    IF entries = <<>> THEN metas
    ELSE LET entry == Head(entries)
             l == loadMetaByFilename(f, entry)
             rec == [Name |-> l.meta.Name, Enabled |-> l.meta.Enabled]
         IN IF f[entry].type = "denied" THEN ListLoop_Aliased(f, Tail(entries), metas)
            ELSE IF ~IsRegular(f, entry) THEN ListLoop_Aliased(f, Tail(entries), metas)
            ELSE IF ~l.ok THEN ListLoop_Aliased(f, Tail(entries), metas)
            ELSE ListLoop_Aliased(f, Tail(entries),
                                  Append([i \in DOMAIN metas |-> rec], rec))

\* The loop of List over the entries: entries that cannot be stat'ed, are
\* no regular files or do not load are skipped.
RECURSIVE ListLoop(_, _, _)
ListLoop(f, entries, metas) ==
    IF entries = <<>> THEN metas
    ELSE LET entry == Head(entries)
             l == loadMetaByFilename(f, entry)
         IN IF f[entry].type = "denied" THEN ListLoop(f, Tail(entries), metas)
            ELSE IF ~IsRegular(f, entry) THEN ListLoop(f, Tail(entries), metas)
            ELSE IF ~l.ok THEN ListLoop(f, Tail(entries), metas)
            ELSE ListLoop(f, Tail(entries),
                          Append(metas, [Name |-> l.meta.Name, Enabled |-> l.meta.Enabled]))

List_(f) == [list |-> ListLoop(f, Glob(f), <<>>), err |-> "nil"]

\* Inspect.  loads: the paths handed to sif.LoadContainer; lookup: whether
\* loadMetaByName was called.
InspectLoad(f, path, lookup) ==
    LET img == LoadContainer(f, path) IN
    IF img = "-"
    THEN [err |-> "LoadError", man |-> ZeroManifest, loads |-> <<path>>, lookup |-> lookup]
    ELSE IF ~isPluginFile(img)
    THEN [err |-> "NotAPlugin", man |-> ZeroManifest, loads |-> <<path>>, lookup |-> lookup]
    ELSE [err |-> "nil", man |-> getManifest(img), loads |-> <<path>>, lookup |-> lookup]

\* Inspect loading the original name after a successful lookup, instead of
\* the path of the installed image copy.
Inspect_KeepsName(f, name) ==
    LET st == Stat(f, name) IN
    IF st = "notexist"
    THEN LET l == loadMetaByName(f, name) IN
         IF ~l.ok
         THEN [err |-> "NotFound", man |-> ZeroManifest, loads |-> <<>>, lookup |-> TRUE]
         ELSE InspectLoad(f, Abs(name), TRUE)
    ELSE IF st = "error"
    THEN [err |-> "IOError", man |-> ZeroManifest, loads |-> <<>>, lookup |-> FALSE]
    ELSE InspectLoad(f, Abs(name), FALSE)

\* Inspect looking the name up among the installed plugins before it
\* looks for a file.
Inspect_LookupFirst(f, name) ==
    LET l == loadMetaByName(f, name)
        st == Stat(f, name)
    IN IF l.ok THEN InspectLoad(f, imageName(l.meta.Name), TRUE)
       ELSE IF st = "notexist"
       THEN [err |-> "NotFound", man |-> ZeroManifest, loads |-> <<>>, lookup |-> TRUE]
       ELSE IF st = "error"
       THEN [err |-> "IOError", man |-> ZeroManifest, loads |-> <<>>, lookup |-> TRUE]
       ELSE InspectLoad(f, Abs(name), TRUE)

\* Inspect going on to load the image after a failed lookup.
Inspect_IgnoresLookupError(f, name) ==
    LET st == Stat(f, name) IN
    IF st = "notexist"
    THEN InspectLoad(f, imageName(loadMetaByName(f, name).meta.Name), TRUE)
    ELSE IF st = "error"
    THEN [err |-> "IOError", man |-> ZeroManifest, loads |-> <<>>, lookup |-> FALSE]
    ELSE InspectLoad(f, Abs(name), FALSE)

Inspect_(f, name) ==
    LET st == Stat(f, name) IN
    IF st = "notexist"
    THEN LET l == loadMetaByName(f, name) IN
         IF ~l.ok
         THEN [err |-> "NotFound", man |-> ZeroManifest, loads |-> <<>>, lookup |-> TRUE]
         ELSE InspectLoad(f, imageName(l.meta.Name), TRUE)
    ELSE IF st = "error"
    THEN [err |-> "IOError", man |-> ZeroManifest, loads |-> <<>>, lookup |-> FALSE]
    ELSE InspectLoad(f, Abs(name), FALSE)

----------------------------------------------------------------------------
(* State machine.  fs is the file system; last records the last call, its *)
(* arguments and what it returned; pre is the file system before that     *)
(* call.  calls holds the two calls that run step by step at the same     *)
(* time (none but in SpecRace).                                            *)

NoCall ==
    [op |-> "none", name |-> EmptyStr, src |-> EmptyStr, eff |-> EmptyStr,
     err |-> "nil", step |-> "none", list |-> <<>>, man |-> ZeroManifest,
     loads |-> <<>>, lookup |-> FALSE, wrote |-> FALSE]

\* The working directory holds the image files a, g, n, the file u that is
\* no container, and d below a directory that cannot be searched.  The
\* registry root exists and is empty.
InitFS ==
    LET base == [q \in {<<>>, rootDir, cwd} |-> DirEntry] IN
    Put(Put(Put(Put(Put(base,
        Abs(PathA), SifEntry("A")),
        Abs(NameG), SifEntry("V")),
        Abs(PathN), SifEntry("N")),
        Abs(PathU), SifEntry("U")),
        Abs(PathD), DeniedEntry)

\* No call is running step by step.  top: "Enable" or "Disable"; tpc, upc:
\* where the call of Enable/Disable and the call of Uninstall are; tmeta,
\* umeta: the Meta each has loaded; ustep: the next step of Meta.uninstall.
NoCalls ==
    [name |-> EmptyStr, top |-> "none",
     tpc |-> "idle", tmeta |-> Meta(EmptyStr, FALSE, "-"), terr |-> "nil",
     upc |-> "idle", umeta |-> Meta(EmptyStr, FALSE, "-"), uerr |-> "nil",
     ustep |-> 1]

Init ==
    /\ fs = InitFS
    /\ pre = InitFS
    /\ last = NoCall
    /\ calls = NoCalls

Failures(steps) == {steps[i] : i \in DOMAIN steps} \cup {"none"}

Install(sifPath, name, fail) ==
    \E r \in {Install_(fs, sifPath, name, fail)} :
    /\ fs' = r.fs
    /\ pre' = fs
    /\ UNCHANGED calls
    /\ last' = [NoCall EXCEPT !.op = "Install", !.name = name, !.src = sifPath,
                              !.eff = r.eff, !.err = r.err, !.step = r.step,
                              !.loads = r.loads]

Uninstall(name, fail) ==
    \E r \in {Uninstall_(fs, name, fail)} :
    /\ fs' = r.fs
    /\ pre' = fs
    /\ UNCHANGED calls
    /\ last' = [NoCall EXCEPT !.op = "Uninstall", !.name = name, !.eff = name,
                              !.err = r.err, !.step = r.step]

List ==
    \E r \in {List_(fs)} :
    /\ fs' = fs
    /\ pre' = fs
    /\ UNCHANGED calls
    /\ last' = [NoCall EXCEPT !.op = "List", !.err = r.err, !.list = r.list]

Enable(name, fail) ==
    \E r \in {Enable_(fs, name, fail)} :
    /\ fs' = r.fs
    /\ pre' = fs
    /\ UNCHANGED calls
    /\ last' = [NoCall EXCEPT !.op = "Enable", !.name = name, !.eff = name,
                              !.err = r.err, !.wrote = r.wrote]

Disable(name, fail) ==
    \E r \in {Disable_(fs, name, fail)} :
    /\ fs' = r.fs
    /\ pre' = fs
    /\ UNCHANGED calls
    /\ last' = [NoCall EXCEPT !.op = "Disable", !.name = name, !.eff = name,
                              !.err = r.err, !.wrote = r.wrote]

Inspect(name) ==
    \E r \in {Inspect_(fs, name)} :
    /\ fs' = fs
    /\ pre' = fs
    /\ UNCHANGED calls
    /\ last' = [NoCall EXCEPT !.op = "Inspect", !.name = name, !.eff = name,
                              !.err = r.err, !.man = r.man, !.loads = r.loads,
                              !.lookup = r.lookup]

\* An injected I/O error matters only to a call that reaches the step: the
\* failures to choose from when Install is given sifPath, and when
\* Uninstall, Enable or Disable are given name.
InstallFailures(sifPath) ==
    IF isPluginFile(LoadContainer(fs, Abs(sifPath)))
    THEN Failures(InstallSteps) ELSE {"none"}

UninstallFailures(name) ==
    IF loadMetaByName(fs, name).ok THEN Failures(UninstallSteps) ELSE {"none"}

WriteFailures(name) ==
    IF loadMetaByName(fs, name).ok THEN {"none", "write"} ELSE {"none"}

Next ==
    \/ \E sifPath \in Sources, name \in Names \cup {EmptyStr} :
          \E fail \in InstallFailures(sifPath) : Install(sifPath, name, fail)
    \/ \E name \in Names : \E fail \in UninstallFailures(name) : Uninstall(name, fail)
    \/ List
    \/ \E name \in Names : \E fail \in WriteFailures(name) : Enable(name, fail)
    \/ \E name \in Names : \E fail \in WriteFailures(name) : Disable(name, fail)
    \/ \E name \in Strs : Inspect(name)

Spec == Init /\ [][Next]_vars

\* The same operations without injected I/O errors, on the names "v/p" and
\* "g" (a file is at path g of the working directory) and with the two
\* plugin images a and g as sources.
NamesG == {NameVP, NameG}

SourcesG == {PathA, NameG, PathN}

NextImages ==
    \/ \E sifPath \in SourcesG, name \in NamesG \cup {EmptyStr} :
          Install(sifPath, name, "none")
    \/ \E name \in NamesG : Uninstall(name, "none")
    \/ List
    \/ \E name \in NamesG : Enable(name, "none")
    \/ \E name \in NamesG : Disable(name, "none")
    \/ \E name \in NamesG \cup SourcesG \cup {PathU, PathD} : Inspect(name)

SpecImages == Init /\ [][NextImages]_vars

\* A registry directory that has been damaged from outside.  The entries
\* of the names "n", "u" and "d" may be present and are no metadata files:
\* a directory, an entry os.Stat fails on, a regular file that does not
\* parse.  The metadata file of "v" may be present with its image copy, its
\* binary object, both or neither.
BadNames == {PathN, PathU, PathD}

BadEntry(name) ==
    CASE name = PathN -> DirEntry
      [] name = PathU -> DeniedEntry
      [] name = PathD -> JunkEntry

Parts == {{"meta"}, {"meta", "copy"}, {"meta", "extract"}, {"meta", "copy", "extract"}}

\* The file system f with the entries of bad damaged.
RECURSIVE Damage(_, _)
Damage(f, bad) ==
    IF bad = {} THEN f
    ELSE LET n == CHOOSE x \in bad : TRUE
         IN Damage(Put(f, metaFilename(n), BadEntry(n)), bad \ {n})

\* The file system f with the files part of the record m.
RECURSIVE PartialInstall(_, _, _)
PartialInstall(f, m, part) ==
    IF part = {} THEN f
    ELSE LET step == CHOOSE x \in part : TRUE
         IN PartialInstall(Put(f, installTarget(m, step), installEntry(m, step)),
                           m, part \ {step})

DamagedFS ==
    {Damage(InitFS, bad) : bad \in SUBSET BadNames}
    \cup {Damage(PartialInstall(MkdirAll(InitFS, metaPath(NameV)),
                                Meta(NameV, TRUE, "A"), part), bad) :
             bad \in SUBSET BadNames, part \in Parts}

InitDamaged ==
    /\ fs \in DamagedFS
    /\ pre = fs
    /\ last = NoCall
    /\ calls = NoCalls

NamesD == {NameV, NameVP} \cup BadNames

NextDamaged ==
    \/ \E name \in {NameV, EmptyStr} : Install(PathA, name, "none")
    \/ \E name \in NamesD : Uninstall(name, "none")
    \/ List
    \/ \E name \in NamesD : Enable(name, "none")
    \/ \E name \in NamesD : Disable(name, "none")
    \/ \E name \in {NameV, PathD} : Inspect(name)

SpecDamaged == InitDamaged /\ [][NextDamaged]_vars

\* The operations on the names "v" and "../x", with I/O errors injected
\* into Install.
NamesT == {NameV, NameUpX}

NextTraversal ==
    \/ \E name \in NamesT : \E fail \in InstallFailures(PathA) :
          Install(PathA, name, fail)
    \/ \E name \in NamesT : Uninstall(name, "none")
    \/ List
    \/ \E name \in NamesT : Enable(name, "none")
    \/ \E name \in NamesT : Disable(name, "none")
    \/ \E name \in NamesT : Inspect(name)

SpecTraversal == Init /\ [][NextTraversal]_vars

\* A call of Enable or Disable and a call of Uninstall on the same name,
\* each running step by step, the steps of the two interleaved in any
\* order.  The plugin is installed, enabled or disabled, when they start.
InstalledFS(name) == Install_(InitFS, PathA, name, "none").fs

RaceFS(name) == {InstalledFS(name), Disable_(InstalledFS(name), name, "none").fs}

InitRace ==
    /\ \E name \in Names :
          /\ fs \in RaceFS(name)
          /\ \E op \in {"Enable", "Disable"} :
                calls = [NoCalls EXCEPT !.name = name, !.top = op,
                                        !.tpc = "start", !.upc = "start"]
    /\ pre = fs
    /\ last = NoCall

\* Enable, Disable: meta, err := loadMetaByName(name)
ToggleLoad ==
    /\ calls.tpc = "start"
    /\ \E l \in {loadMetaByName(fs, calls.name)} :
          calls' = IF l.ok
                   THEN [calls EXCEPT !.tpc = "loaded", !.tmeta = l.meta]
                   ELSE [calls EXCEPT !.tpc = "done", !.terr = "NotFound"]
    /\ UNCHANGED <<fs, pre, last>>

\* Enable: if meta.Enabled { return nil }; Disable: if !meta.Enabled
ToggleCheck ==
    /\ calls.tpc = "loaded"
    /\ calls' = IF calls.tmeta.Enabled = (calls.top = "Enable")
                THEN [calls EXCEPT !.tpc = "done", !.terr = "nil"]
                ELSE [calls EXCEPT !.tpc = "checked"]
    /\ UNCHANGED <<fs, pre, last>>

\* Enable: return meta.enable(); Disable: return meta.disable()
ToggleWrite ==
    /\ calls.tpc = "checked"
    /\ \E r \in {IF calls.top = "Enable"
                 THEN metaEnable(fs, calls.tmeta, "none")
                 ELSE metaDisable(fs, calls.tmeta, "none")} :
          /\ fs' = r.fs
          /\ calls' = [calls EXCEPT !.tpc = "done",
                          !.terr = IF r.step = "none" THEN "nil" ELSE "IOError"]
    /\ UNCHANGED <<pre, last>>

\* Uninstall: meta, err := loadMetaByName(name)
UninstallLoad ==
    /\ calls.upc = "start"
    /\ \E l \in {loadMetaByName(fs, calls.name)} :
          calls' = IF l.ok
                   THEN [calls EXCEPT !.upc = "removing", !.umeta = l.meta, !.ustep = 1]
                   ELSE [calls EXCEPT !.upc = "done", !.uerr = "NotFound"]
    /\ UNCHANGED <<fs, pre, last>>

\* Uninstall: one step of meta.uninstall(), the removal of one file.
UninstallRemove ==
    /\ calls.upc = "removing"
    /\ \E t \in {uninstallTarget(calls.umeta, UninstallSteps[calls.ustep])} :
          fs' = IF Exists(fs, t) THEN Del(fs, t) ELSE fs
    /\ calls' = IF calls.ustep = Len(UninstallSteps)
                THEN [calls EXCEPT !.upc = "done", !.uerr = "nil"]
                ELSE [calls EXCEPT !.ustep = calls.ustep + 1]
    /\ UNCHANGED <<pre, last>>

NextRace ==
    \/ ToggleLoad
    \/ ToggleCheck
    \/ ToggleWrite
    \/ UninstallLoad
    \/ UninstallRemove

SpecRace == InitRace /\ [][NextRace]_vars

----------------------------------------------------------------------------
(* Properties *)

\* The name an Install call c is to register, given the file system before
\* it: the name argument, or the name the image's manifest declares when
\* the argument is empty.
EffectiveName(c) ==
    IF c.name = EmptyStr
    THEN getManifest(LoadContainer(pre, Abs(c.src))).Name
    ELSE c.name

\* What List returns on file system f.
Listed(f) == List_(f).list

\* The positions of the records named n in a list of records.
Named(l, n) == {i \in DOMAIN l : l[i].Name = n}

InstallOK == last.op = "Install" /\ last.err = "nil"

\* C1: after a successful Install of a name that had no metadata file, List
\* returns exactly one record with the effective name (the name argument,
\* or the manifest's name for an empty argument; names with path separators
\* included), and that record is enabled.
C1_InstallThenList ==
    (InstallOK /\ ~Exists(pre, metaFilename(EffectiveName(last))))
        => LET l == Listed(fs) IN
           /\ Cardinality(Named(l, EffectiveName(last))) = 1
           /\ \A i \in Named(l, EffectiveName(last)) : l[i].Enabled = TRUE

\* A fresh Install of "v/p" under its explicit name while "v" is installed:
\* List returns both records.
C1_Witness ==
    /\ InstallOK
    /\ last.name = NameVP
    /\ ~Exists(pre, metaFilename(NameVP))
    /\ Len(Listed(fs)) = 2
    /\ \E i \in DOMAIN Listed(fs) : Listed(fs)[i] = [Name |-> NameVP, Enabled |-> TRUE]

\* The files Install creates for name n.
InstalledFiles(n) == {metaFilename(n), imageName(n), binaryName(n), configName(n)}

\* C2: when a successful Uninstall(name) follows a successful Install of
\* that name, List returns no record for the name and none of the files
\* Install created for it (metadata file, image copy, binary object,
\* default configuration file) remains.
C2_InstallUninstallLeavesNothing ==
    [][(/\ InstallOK
        /\ last'.op = "Uninstall" /\ last'.err = "nil"
        /\ last'.name = EffectiveName(last))
       => (/\ Named(Listed(fs'), last'.name) = {}
           /\ \A p \in InstalledFiles(last'.name) : ~Exists(fs', p))]_vars

\* The record the metadata file of name n holds on file system f.
Record(f, n) == loadMetaByName(f, n)

IsInstalled(f, n) == Record(f, n).ok

\* C3: Enable on an installed plugin that is enabled, and Disable on one
\* that is disabled, return no error, leave the file system as it was and
\* do not rewrite the metadata file.
C3_ToggleToSameState ==
    /\ (last.op = "Enable" /\ IsInstalled(pre, last.name)
           /\ Record(pre, last.name).meta.Enabled)
          => (last.err = "nil" /\ fs = pre /\ ~last.wrote)
    /\ (last.op = "Disable" /\ IsInstalled(pre, last.name)
           /\ ~Record(pre, last.name).meta.Enabled)
          => (last.err = "nil" /\ fs = pre /\ ~last.wrote)

\* Enable has returned on a plugin that was installed and enabled.
C3_Witness ==
    /\ last.op = "Enable"
    /\ IsInstalled(pre, last.name)
    /\ Record(pre, last.name).meta.Enabled
    /\ last.err = "nil"

\* The list l with the flag of the record named n set to b.
WithFlag(l, n, b) ==
    [i \in DOMAIN l |-> IF l[i].Name = n THEN [Name |-> n, Enabled |-> b] ELSE l[i]]

\* A successful call of op on name n is followed by a successful call of
\* op2 on the same name.
Follows(op, op2) ==
    /\ last.op = op /\ last.err = "nil"
    /\ last'.op = op2 /\ last'.err = "nil"
    /\ last'.name = last.name

\* C4: Disable(name) then Enable(name) leaves the record of name enabled,
\* Enable(name) then Disable(name) leaves it disabled; List reports the
\* intermediate state ({name, false} after Disable, {name, true} after
\* Enable), and the other records and the names listed do not change.
C4_ToggleInverse ==
    [][/\ Follows("Disable", "Enable")
          => /\ Cardinality(Named(Listed(fs), last.name)) = 1
             /\ \A i \in Named(Listed(fs), last.name) : ~Listed(fs)[i].Enabled
             /\ Listed(fs') = WithFlag(Listed(fs), last.name, TRUE)
       /\ Follows("Enable", "Disable")
          => /\ Cardinality(Named(Listed(fs), last.name)) = 1
             /\ \A i \in Named(Listed(fs), last.name) : Listed(fs)[i].Enabled
             /\ Listed(fs') = WithFlag(Listed(fs), last.name, FALSE)]_vars

\* Enable has rewritten the metadata file of a disabled plugin while the
\* other plugin is installed: List shows it enabled again.
C4_Witness ==
    /\ last.op = "Enable" /\ last.err = "nil" /\ last.wrote
    /\ ~Record(pre, last.name).meta.Enabled
    /\ Len(Listed(fs)) = 2
    /\ Listed(pre) = WithFlag(Listed(fs), last.name, FALSE)
    /\ Listed(fs) = WithFlag(Listed(pre), last.name, TRUE)

\* What Inspect returns on file system f.
Inspected(f, name) == [err |-> Inspect_(f, name).err, man |-> Inspect_(f, name).man]

\* C5 as stated: for every valid plugin image and every install name n,
\* Inspect(path of the image) before Install and Inspect(n) after the
\* successful Install(path, n) return the same Manifest.
C5_InspectPathAndName ==
    InstallOK => Inspected(fs, EffectiveName(last)) = Inspected(pre, last.src)

\* C5, amended: the same, for the install names n at which os.Stat finds no
\* file when Inspect(n) is called.
C5_InspectPathAndNameNoFile ==
    (InstallOK /\ Stat(fs, EffectiveName(last)) = "notexist")
        => /\ Inspected(pre, last.src).err = "nil"
           /\ Inspected(fs, EffectiveName(last)) = Inspected(pre, last.src)

\* Image g, whose manifest declares "g", has been installed under the
\* explicit name "v/p"; Inspect("v/p") returns the manifest of g.
C5_Witness ==
    /\ InstallOK
    /\ last.src = NameG /\ last.name = NameVP
    /\ Stat(fs, NameVP) = "notexist"
    /\ Inspected(fs, NameVP) = [err |-> "nil", man |-> [Name |-> NameG]]

\* C6: Install of a source that cannot be loaded returns LoadError, of a
\* source that loads but is no plugin image NotAPlugin; in both cases the
\* file system is as before the call.
C6_RejectedSource ==
    last.op = "Install"
        => LET img == LoadContainer(pre, Abs(last.src)) IN
           /\ img = "-" => (last.err = "LoadError" /\ fs = pre)
           /\ (img # "-" /\ ~isPluginFile(img)) => (last.err = "NotAPlugin" /\ fs = pre)

\* Install of the container n, which is no plugin, under a name that is
\* installed: rejected, and the record is as it was.
C6_Witness ==
    /\ last.op = "Install" /\ last.src = PathN
    /\ last.err = "NotAPlugin"
    /\ last.name # EmptyStr /\ IsInstalled(pre, last.name)
    /\ fs = pre

\* C7: an Install that fails at a step of Meta.install returns InstallError,
\* leaves the metadata file of the name as it was (absent if it was absent)
\* and List returns what it returned before; a metadata file that a call of
\* Install has created has its directory, image copy, binary object and
\* configuration file.
C7_NoMetaUnlessInstalled ==
    last.op = "Install"
        => LET n == EffectiveName(last) IN
           /\ (last.err # "nil")
                => /\ Exists(fs, metaFilename(n)) = Exists(pre, metaFilename(n))
                   /\ Exists(pre, metaFilename(n)) => fs[metaFilename(n)] = pre[metaFilename(n)]
                   /\ Listed(fs) = Listed(pre)
           /\ (\E k \in DOMAIN InstallSteps : InstallSteps[k] = last.step)
                => last.err = "InstallError"
           /\ (Exists(fs, metaFilename(n)) /\ ~Exists(pre, metaFilename(n)))
                => /\ last.err = "nil"
                   /\ IsDir(fs, metaPath(n))
                   /\ \A p \in InstalledFiles(n) : IsRegular(fs, p)

\* Install has failed writing the configuration file of a name that was
\* not installed: image copy and binary object are there, the metadata
\* file is not.
C7_Witness ==
    /\ last.op = "Install" /\ last.step = "config" /\ last.err = "InstallError"
    /\ ~Exists(pre, metaFilename(EffectiveName(last)))
    /\ Exists(fs, imageName(EffectiveName(last)))
    /\ Exists(fs, binaryName(EffectiveName(last)))
    /\ ~Exists(fs, metaFilename(EffectiveName(last)))

\* The metadata files under the root: the entries List loads.
MetaFiles(f) == {p \in DOMAIN f : Parent(p) = rootDir /\ MatchMeta(p[Len(p)]) /\ IsRegular(f, p)}

\* C8: in every state reached by calls of Install, Uninstall, Enable and
\* Disable that return (with or without an error), every metadata file
\* under the root has the image copy and the binary object of the name it
\* records, and is the metadata file of that name.
C8_MetaHasImageAndBinary ==
    \A p \in MetaFiles(fs) :
        LET l == loadMetaByFilename(fs, p) IN
        /\ l.ok
        /\ metaFilename(l.meta.Name) = p
        /\ IsRegular(fs, imageName(l.meta.Name))
        /\ IsRegular(fs, binaryName(l.meta.Name))

\* Uninstall has failed after a step, and the other plugin is installed.
C8_Witness ==
    /\ last.op = "Uninstall" /\ last.err = "IOError" /\ last.step = "image"
    /\ MetaFiles(pre) # MetaFiles(fs)
    /\ MetaFiles(fs) # {}

\* C9: Inspect(name) first looks for a file at path name.  If one is found
\* it is what is loaded, and no installed plugin is looked up, whether or
\* not one of that name is installed.  If os.Stat finds nothing, name is
\* looked up among the installed plugins and the image copy of the plugin
\* is loaded.  If os.Stat fails otherwise, Inspect returns that error,
\* looks nothing up and loads nothing.  A loaded image that is no plugin
\* yields NotAPlugin.
C9_InspectResolution ==
    last.op = "Inspect"
        => LET st == Stat(pre, last.name) IN
           /\ fs = pre
           /\ st = "ok" => (~last.lookup /\ last.loads = <<Abs(last.name)>>)
           /\ st = "notexist"
                => /\ last.lookup
                   /\ IsInstalled(pre, last.name)
                        => last.loads = <<imageName(last.name)>>
           /\ st = "error"
                => (last.err = "IOError" /\ ~last.lookup /\ last.loads = <<>>)
           /\ \A i \in DOMAIN last.loads :
                LET img == LoadContainer(pre, last.loads[i]) IN
                /\ img = "-" => last.err = "LoadError"
                /\ (img # "-" /\ ~isPluginFile(img)) => last.err = "NotAPlugin"
                /\ (img # "-" /\ isPluginFile(img))
                     => (last.err = "nil" /\ last.man = getManifest(img))

\* Inspect("g") while a plugin named "g" is installed from image a and a
\* file is at path g: the file is loaded, nothing is looked up.
C9_Witness ==
    /\ last.op = "Inspect" /\ last.name = NameG
    /\ IsInstalled(fs, NameG)
    /\ LoadContainer(fs, imageName(NameG)) = "A"
    /\ ~last.lookup
    /\ last.loads = <<Abs(NameG)>>
    /\ last.man = [Name |-> NameG]

\* C10: Inspect(name) with no file at path name and no plugin installed
\* under name returns NotFound and the zero Manifest, and loads no image.
C10_InspectNotFound ==
    (last.op = "Inspect" /\ Stat(pre, last.name) = "notexist"
        /\ ~IsInstalled(pre, last.name))
        => (last.err = "NotFound" /\ last.man = ZeroManifest /\ last.loads = <<>>)

\* Inspect("a/x"), a path below a regular file: os.Stat fails with an error
\* that is not os.IsNotExist, and nothing is looked up or loaded.
C9_NotDirWitness ==
    /\ last.op = "Inspect" /\ last.name = PathAX
    /\ last.err = "IOError" /\ ~last.lookup /\ last.loads = <<>>

\* Inspect("v/p") while only "v" is installed.
C10_Witness ==
    /\ last.op = "Inspect" /\ last.name = NameVP
    /\ IsInstalled(pre, NameV) /\ ~IsInstalled(pre, NameVP)
    /\ last.err = "NotFound"

\* The entry at path p is the same on file systems f and g (absent on both,
\* or present with the same content).
SameAt(f, g, p) == Exists(f, p) = Exists(g, p) /\ (Exists(f, p) => f[p] = g[p])

\* C12: a successful Install registers the plugin under the name argument
\* when that is not empty, and under the name the manifest declares only
\* when the argument is empty; the record written is {that name, Enabled =
\* true}, and with a non-empty argument the metadata file of the manifest's
\* name is left as it was.
C12_ExplicitNameWins ==
    InstallOK
        => LET declared == getManifest(LoadContainer(pre, Abs(last.src))).Name
               n == IF last.name # EmptyStr THEN last.name ELSE declared
           IN /\ last.eff = n
              /\ Record(fs, n) = [ok |-> TRUE, meta |-> Meta(n, TRUE, "-")]
              /\ (last.name # EmptyStr /\ last.name # declared)
                   => SameAt(fs, pre, metaFilename(declared))

\* Image a, whose manifest declares "v/p", has been installed under the
\* explicit name "v" over a disabled record of "v", while "v/p" is not
\* installed.
C12_Witness ==
    /\ InstallOK
    /\ last.src = PathA /\ last.name = NameV
    /\ IsInstalled(pre, NameV) /\ ~Record(pre, NameV).meta.Enabled
    /\ Record(fs, NameV).meta.Enabled
    /\ ~IsInstalled(fs, NameVP)

\* C13: in every state reached by calls of Install, Uninstall, Enable and
\* Disable (a name may be installed again while it is installed), no two
\* records that List returns have the same Name.
C13_NameIsPrimaryKey ==
    \A i, j \in DOMAIN Listed(fs) :
        Listed(fs)[i].Name = Listed(fs)[j].Name => i = j

\* "v" has been installed again while it was installed, and "v/p" is
\* installed: List returns two records.
C13_Witness ==
    /\ InstallOK
    /\ EffectiveName(last) = NameV
    /\ IsInstalled(pre, NameV) /\ IsInstalled(pre, NameVP)
    /\ Len(Listed(fs)) = 2
    /\ Cardinality(Named(Listed(fs), NameV)) = 1

\* The lifecycle state of name n on file system f.
Lifecycle(f, n) ==
    IF ~IsInstalled(f, n) THEN "not-installed"
    ELSE IF Record(f, n).meta.Enabled THEN "enabled" ELSE "disabled"

\* The names whose lifecycle state is observed: the plugin names and the
\* empty name.
Observed == Names \cup {EmptyStr}

\* The last call has changed the lifecycle state of n from a to b, and was
\* a call of op on n.
Changed(n, a, b, op) ==
    /\ Lifecycle(pre, n) = a /\ Lifecycle(fs, n) = b
    /\ last.op = op /\ last.eff = n

\* C16 as stated: the lifecycle state of a name changes only from
\* not-installed to enabled by Install, from enabled to disabled by Disable,
\* from disabled to enabled by Enable, and from installed to not-installed
\* by Uninstall; List and Inspect change nothing.
C16_LifecycleOnly ==
    /\ \A n \in Observed :
          Lifecycle(pre, n) # Lifecycle(fs, n)
             => \/ Changed(n, "not-installed", "enabled", "Install")
                \/ Changed(n, "enabled", "disabled", "Disable")
                \/ Changed(n, "disabled", "enabled", "Enable")
                \/ Changed(n, "enabled", "not-installed", "Uninstall")
                \/ Changed(n, "disabled", "not-installed", "Uninstall")
    /\ last.op \in {"List", "Inspect"} => fs = pre

\* C16, amended: the same, and from disabled to enabled also by Install of
\* the name while it is installed.
C16_LifecycleWithReinstall ==
    /\ \A n \in Observed :
          Lifecycle(pre, n) # Lifecycle(fs, n)
             => \/ Changed(n, "not-installed", "enabled", "Install")
                \/ Changed(n, "disabled", "enabled", "Install")
                \/ Changed(n, "enabled", "disabled", "Disable")
                \/ Changed(n, "disabled", "enabled", "Enable")
                \/ Changed(n, "enabled", "not-installed", "Uninstall")
                \/ Changed(n, "disabled", "not-installed", "Uninstall")
    /\ last.op \in {"List", "Inspect"} => fs = pre

\* Install of "v/p" by the name of the manifest has found "v/p" disabled and
\* left it enabled, while "v" stays disabled.
C16_Witness ==
    /\ Changed(NameVP, "disabled", "enabled", "Install")
    /\ last.name = EmptyStr /\ last.err = "nil"
    /\ Lifecycle(pre, NameV) = "disabled" /\ Lifecycle(fs, NameV) = "disabled"

\* The metadata file, the image copy and the binary object of name n.
PluginFiles(n) == {metaFilename(n), imageName(n), binaryName(n)}

\* C17: a call of Install, Uninstall, Enable or Disable on name A, whether
\* or not it returns an error, leaves the metadata file (Name, Enabled), the
\* image copy and the binary object of every other installed plugin B as
\* they were; "v" is a path prefix of "v/p".
C17_OtherPluginsUnchanged ==
    last.op \in {"Install", "Uninstall", "Enable", "Disable"}
        => \A B \in Names :
              (B # last.eff /\ IsInstalled(pre, B))
                 => /\ Record(fs, B) = Record(pre, B)
                    /\ \A p \in PluginFiles(B) : SameAt(fs, pre, p)

\* Uninstall("v") has removed the files of "v" while "v/p", below the
\* directory of "v", is installed and disabled.
C17_Witness ==
    /\ last.op = "Uninstall" /\ last.name = NameV /\ last.err = "nil"
    /\ IsRegular(pre, imageName(NameV)) /\ ~Exists(fs, imageName(NameV))
    /\ Record(fs, NameVP) = [ok |-> TRUE, meta |-> Meta(NameVP, FALSE, "-")]
    /\ \A p \in PluginFiles(NameVP) : IsRegular(fs, p)

\* The entries under the root that match the pattern of List.
MetaEntries(f) == {p \in DOMAIN f : Parent(p) = rootDir /\ MatchMeta(p[Len(p)])}

\* Those that are regular files holding the JSON of a Meta.
WellFormed(f) == {p \in MetaEntries(f) : f[p].type = "file" /\ f[p].kind = "json"}

\* The elements of a sequence.
Range(l) == {l[i] : i \in DOMAIN l}

\* C11: whatever entries under the root are directories, cannot be stat'ed
\* or do not parse, List returns no error and exactly one record for each
\* of the other entries, the well-formed regular metadata files, holding
\* the Name and Enabled of the file.
C11_ListSkipsBadEntries ==
    last.op = "List"
        => /\ last.err = "nil"
           /\ Len(last.list) = Cardinality(WellFormed(pre))
           /\ Range(last.list)
                = {[Name |-> pre[p].Name, Enabled |-> pre[p].Enabled] : p \in WellFormed(pre)}

\* List has returned the records of "v/p" and "v" while a directory, an
\* entry that cannot be stat'ed and a file that does not parse are among
\* the entries; the pattern lists them between the two metadata files.
C11_Witness ==
    /\ last.op = "List"
    /\ Cardinality(MetaEntries(pre) \ WellFormed(pre)) = 3
    /\ Len(last.list) = 2
    /\ last.list[1].Name = NameVP /\ last.list[2].Name = NameV

\* C14: Uninstall, Enable and Disable of a name whose metadata file is
\* absent, is no regular file, cannot be stat'ed or does not parse return
\* NotFound and leave the file system as it was; nothing is written.
C14_NotFoundChangesNothing ==
    (last.op \in {"Uninstall", "Enable", "Disable"} /\ ~IsInstalled(pre, last.name))
        => (last.err = "NotFound" /\ fs = pre /\ ~last.wrote)

\* Uninstall("d") has returned NotFound: the metadata file of "d" is there
\* and does not parse.
C14_Witness ==
    /\ last.op = "Uninstall" /\ last.name = PathD
    /\ IsRegular(pre, metaFilename(PathD))
    /\ last.err = "NotFound"
    /\ fs = pre

\* Enable("v/p") has returned NotFound: "v/p" has no metadata file, and
\* "v" is installed.
C14_AbsentWitness ==
    /\ last.op = "Enable" /\ last.name = NameVP
    /\ ~Exists(pre, metaFilename(NameVP))
    /\ IsInstalled(pre, NameV)
    /\ last.err = "NotFound"

\* C15: Uninstall of a name whose metadata file is present and whose image
\* copy or binary object, or both, is missing returns no error; afterwards
\* none of the three files exists and List returns no record of the name.
C15_UninstallOfPartialInstall ==
    (/\ last.op = "Uninstall"
     /\ IsInstalled(pre, last.name)
     /\ \E p \in {imageName(last.name), binaryName(last.name)} : ~Exists(pre, p))
        => /\ last.err = "nil"
           /\ \A p \in PluginFiles(last.name) : ~Exists(fs, p)
           /\ Named(Listed(fs), last.name) = {}

\* Uninstall("v") has removed the metadata file and the binary object of a
\* record whose image copy was missing.
C15_Witness ==
    /\ last.op = "Uninstall" /\ last.name = NameV /\ last.err = "nil"
    /\ IsInstalled(pre, NameV)
    /\ ~Exists(pre, imageName(NameV)) /\ IsRegular(pre, binaryName(NameV))
    /\ \A p \in PluginFiles(NameV) : ~Exists(fs, p)

\* The paths whose entry the last call has created, removed or rewritten.
Touched == {p \in DOMAIN fs \cup DOMAIN pre : ~SameAt(fs, pre, p)}

\* C18: every file or directory that a call of Install creates or writes
\* and that a call of Uninstall removes is below the registry root, also
\* for a name with a parent-directory segment ("../x") if the call accepts
\* it.
C18_WritesStayUnderRoot ==
    last.op \in {"Install", "Uninstall"} => \A p \in Touched : UnderRoot(p)

\* Both calls of the race have returned, and neither an error.
BothReturnedNil ==
    /\ calls.tpc = "done" /\ calls.upc = "done"
    /\ calls.terr = "nil" /\ calls.uerr = "nil"

\* C19: when a call of Enable(n) or Disable(n) and a call of Uninstall(n)
\* whose steps were interleaved have both returned without an error, either
\* n has no metadata file, or its metadata file, image copy and binary
\* object all exist.
C19_RaceLeavesConsistent ==
    BothReturnedNil
        => \/ ~Exists(fs, metaFilename(calls.name))
           \/ \A p \in PluginFiles(calls.name) : IsRegular(fs, p)

====
